---- MODULE Spec2Model ----
(***************************************************************************)
(* Model of scripts/geodata/osm/osm_address_training_data.py: the OSM      *)
(* stream parser (parse_osm), the coordinate normalizer (latlon_to_floats),*)
(* the language attribution engine (get_language_names) and the training-  *)
(* set builders that drive them.                                           *)
(*                                                                         *)
(* Strings the code takes apart or keeps in a dictionary (attribute names, *)
(* tag keys and values, coordinate texts) are sequences of one-character   *)
(* strings; element tags and country codes are TLA+ strings.  Python longs *)
(* are written in limbs of base 10^5, most significant first, so that      *)
(* 10^15 is exact.                                                         *)
(***************************************************************************)
EXTENDS Integers, Sequences, FiniteSets, TLC

VARIABLES
    builder,            \* which builder runs over the stream
    todo,               \* entities of the input file not yet read
    status,             \* "open", "done" or "raised" (an exception left the builder)
    skipped,            \* records given up so far for a per-record failure
    item,               \* the last entity read, as parse_osm decodes it
    lookup,             \* what the language index answered for it
    name_language,      \* what get_language_names returned for it
    written,            \* the rows written for it
    handed,             \* the tag bags handed to the address formatter for it
    country_data,       \* the language tables' entries for the country of the run
    allowed_types,   \* parse_osm: the allowed_types argument
    siblings,        \* parse_osm: the elements attached under the root, oldest first
    pending,         \* parse_osm: tag children parsed for the element not yet ended
    pc,              \* parse_osm: "running" | "suspended" (at the yield) | "done" |
                     \*            "raised" (an exception left the generator)
    seen,            \* parse_osm: the end events handled since the last entity element
                     \*            was left behind, in order (tag children, then their parent)
    yielded,         \* parse_osm: what the generator yielded for the events of seen
    lat_text,        \* latlon_to_floats: the latitude argument
    lon_text,        \* latlon_to_floats: the longitude argument
    coords           \* latlon_to_floats: what the call returned or raised

parserVars == <<allowed_types, siblings, pending, pc, seen, yielded>>

coordVars == <<lat_text, lon_text, coords>>

builderVars ==
    <<builder, todo, status, skipped, item, lookup, name_language, written, handed,
      country_data>>

vars == <<parserVars, coordVars, builderVars>>

\* The parts of the program a specification does not run stay as they are here.
ParserIdle ==
    /\ allowed_types = {}
    /\ siblings = <<>>
    /\ pending = <<>>
    /\ pc = "idle"
    /\ seen = <<>>
    /\ yielded = <<>>

NotParsed == [ok |-> FALSE, lat |-> 0, lon |-> 0, called |-> FALSE]

CoordIdle ==
    /\ lat_text = <<>>
    /\ lon_text = <<>>
    /\ coords = NotParsed

\* no entity read yet
NoItem == [yields |-> FALSE, item_type |-> "", key |-> <<>>, value |-> <<>>]

\* country_and_languages found nothing: (None, None, None)
NoGeo == [country |-> "", candidate_languages |-> <<>>, language_props |-> <<>>]

\* get_language_names returned (None, None); partial is what the scan had gathered
\* official_languages[country] and the well-represented languages that have the
\* country among their WELL_REPRESENTED_LANGUAGE_COUNTRIES, for a builder that reads
\* neither
NoCountryData == [official |-> <<>>, origin |-> {}]

NoNames ==
    [ok |-> FALSE, country |-> "", names |-> <<>>, calls |-> <<>>, located |-> FALSE,
     partial |-> <<>>]

BuilderIdle ==
    /\ builder = "none"
    /\ todo = 0
    /\ status = "idle"
    /\ skipped = 0
    /\ item = NoItem
    /\ lookup = NoGeo
    /\ name_language = NoNames
    /\ written = <<>>
    /\ handed = <<>>
    /\ country_data = NoCountryData

----------------------------------------------------------------------------
(* Sequences and ordered dictionaries *)

Range(s) == {s[i] : i \in 1..Len(s)}

RECURSIVE Sum(_)
Sum(s) == IF s = <<>> THEN 0 ELSE Head(s) + Sum(Tail(s))

\* An OrderedDict is a sequence of <<key, value>> pairs with distinct keys.
Keys(d) == {d[i][1] : i \in 1..Len(d)}

HasKey(d, k) == \E i \in 1..Len(d) : d[i][1] = k

Get(d, k) == d[CHOOSE i \in 1..Len(d) : d[i][1] = k][2]

\* d[k] = v: an existing key keeps its place, a new key goes last.
Put(d, k, v) ==
    IF HasKey(d, k)
    THEN [i \in 1..Len(d) |-> IF d[i][1] = k THEN <<k, v>> ELSE d[i]]
    ELSE Append(d, <<k, v>>)

\* OrderedDict(pairs) and d.update(pairs): later pairs win.
RECURSIVE Update(_, _)
Update(d, pairs) ==
    IF pairs = <<>> THEN d
    ELSE Update(Put(d, pairs[1][1], pairs[1][2]), Tail(pairs))

----------------------------------------------------------------------------
(* Python longs in limbs of base 10^5: <<l3, l2, l1, l0>> is                *)
(* l3 * 10^15 + l2 * 10^10 + l1 * 10^5 + l0, with l2, l1, l0 < 10^5.        *)

LimbBase == 10 ^ 5

NumLimbs == Len(<<"10^15", "10^10", "10^5", "1">>)

TopLimb == LimbBase - 1

IsLong(x) ==
    /\ Len(x) = NumLimbs
    /\ x[1] \in Nat
    /\ \A i \in 2..NumLimbs : x[i] \in 0..TopLimb

\* x >= y, most significant limb first
RECURSIVE LongGEFrom(_, _, _)
LongGEFrom(x, y, i) ==
    IF i > NumLimbs THEN TRUE
    ELSE IF x[i] # y[i] THEN x[i] > y[i]
    ELSE LongGEFrom(x, y, i + 1)

LongGE(x, y) == LongGEFrom(x, y, 1)

LongLT(x, y) == ~LongGE(x, y)

\* x - y for x >= y, least significant limb first, with borrow
RECURSIVE LongSubFrom(_, _, _, _)
LongSubFrom(x, y, i, borrow) ==
    IF i = 0 THEN <<>>
    ELSE LET raw == x[i] - y[i] - borrow
             low == i > 1 /\ raw < 0
         IN  Append(LongSubFrom(x, y, i - 1, IF low THEN 1 ELSE 0),
                    IF low THEN raw + LimbBase ELSE raw)

LongSub(x, y) == LongSubFrom(x, y, NumLimbs, 0)

LongZero == <<0, 0, 0, 0>>

\* WAY_OFFSET = 10 ** 15
WAY_OFFSET == <<1, 0, 0, 0>>

\* RELATION_OFFSET = 2 * 10 ** 15
RELATION_OFFSET == <<2, 0, 0, 0>>

ALL_OSM_TAGS == {"node", "way", "relation"}

WAYS_RELATIONS == {"way", "relation"}

\* x + y, least significant limb first, with carry (used to state x - y = z as z + y = x)
RECURSIVE LongAddFrom(_, _, _, _)
LongAddFrom(x, y, i, carry) ==
    IF i = 0 THEN <<>>
    ELSE LET raw == x[i] + y[i] + carry
             high == i > 1 /\ raw >= LimbBase
         IN  Append(LongAddFrom(x, y, i - 1, IF high THEN 1 ELSE 0),
                    IF high THEN raw - LimbBase ELSE raw)

LongAdd(x, y) == LongAddFrom(x, y, NumLimbs, 0)

----------------------------------------------------------------------------
(* Attribute names, tag keys and texts, as sequences of characters *)

KeyId == <<"i", "d">>
KeyK == <<"k">>
KeyV == <<"v">>
KeyLat == <<"l", "a", "t">>
KeyLon == <<"l", "o", "n">>
KeyName == <<"n", "a", "m", "e">>
KeyName1 == <<"n", "a", "m", "e", "_", "1">>
KeyNameEn == <<"n", "a", "m", "e", ":", "e", "n">>
KeyNameFr == <<"n", "a", "m", "e", ":", "f", "r">>
KeyNameJaRm == <<"n", "a", "m", "e", ":", "j", "a", "_", "r", "m">>
KeyNameZz == <<"n", "a", "m", "e", ":", "z", "z">>
KeyAddrStreet == <<"a", "d", "d", "r", ":", "s", "t", "r", "e", "e", "t">>
KeyHouse == <<"h", "o", "u", "s", "e">>
KeyAddrStreetEn == <<"a", "d", "d", "r", ":", "s", "t", "r", "e", "e", "t", ":", "e", "n">>
KeyAddrStreetFr == <<"a", "d", "d", "r", ":", "s", "t", "r", "e", "e", "t", ":", "f", "r">>
KeyHousenumber == <<"a", "d", "d", "r", ":", "h", "o", "u", "s", "e", "n", "u", "m", "b", "e", "r">>

\* tag values: what the text says matters only to the collaborators
TextA == <<"A">>
TextB == <<"B">>

Texts == {TextA, TextB}

----------------------------------------------------------------------------
(* parse_osm *)

\* elem_id = long(elem.attrib.pop('id', 0))
PopId(attrib) == IF HasKey(attrib, KeyId) THEN Get(attrib, KeyId) ELSE LongZero

WithoutId(attrib) == SelectSeq(attrib, LAMBDA p : p[1] # KeyId)

\* Decode with the way range opened at its lower end (> for >=)
DecodeStrictLower(tag, id) ==
    IF ~LongGE(WAY_OFFSET, id) /\ LongLT(id, RELATION_OFFSET)
    THEN [item_type |-> "way", elem_id |-> LongSub(id, WAY_OFFSET)]
    ELSE IF LongGE(id, RELATION_OFFSET)
    THEN [item_type |-> "relation", elem_id |-> LongSub(id, RELATION_OFFSET)]
    ELSE [item_type |-> tag, elem_id |-> id]

\* item_type = elem.tag, then the two id ranges override it
Decode(tag, id) ==
    IF LongGE(id, WAY_OFFSET) /\ LongLT(id, RELATION_OFFSET)
    THEN [item_type |-> "way", elem_id |-> LongSub(id, WAY_OFFSET)]
    ELSE IF LongGE(id, RELATION_OFFSET)
    THEN [item_type |-> "relation", elem_id |-> LongSub(id, RELATION_OFFSET)]
    ELSE [item_type |-> tag, elem_id |-> id]

\* The filter with the allowed_types argument ignored
IsAllowedAnyKind(item_type, allowed) == item_type \in ALL_OSM_TAGS

\* if item_type in allowed_types
IsAllowed(item_type, allowed) == item_type \in allowed

\* [(e.attrib['k'], e.attrib['v']) for e in elem.getchildren() if e.tag == 'tag']
TagChildren(children) == SelectSeq(children, LAMBDA e : e.tag = "tag")

ChildrenReadable(children) ==
    \A i \in 1..Len(children) :
        children[i].tag = "tag" => HasKey(children[i].attrib, KeyK) /\ HasKey(children[i].attrib, KeyV)

TagPairs(children) ==
    LET tags == TagChildren(children)
    IN  [i \in 1..Len(tags) |-> <<Get(tags[i].attrib, KeyK), Get(tags[i].attrib, KeyV)>>]

\* attrs = OrderedDict(elem.attrib); attrs.update(OrderedDict([...]))
Attrs(attrib, children) == Update(Update(<<>>, attrib), Update(<<>>, TagPairs(children)))

\* key = elem_id if single_type else '{}:{}'.format(item_type, elem_id)
Key(item_type, elem_id, allowed) ==
    IF Cardinality(allowed) = 1 THEN <<elem_id>> ELSE <<item_type, elem_id>>

\* if elem.tag != 'tag'
ShouldClear(tag) == tag # "tag"

\* elem.clear()
Cleared(elem) == [elem EXCEPT !.attrib = <<>>, !.children = <<>>, !.cleared = TRUE]

\* The earlier siblings removed, the element itself left as it is
PruneWithoutClear(sibs) == <<sibs[Len(sibs)]>>

\* elem.clear(); while elem.getprevious() is not None: del elem.getparent()[0]
\* for the last element of its parent's children: it alone remains, emptied
ClearAndPrune(sibs) == <<Cleared(sibs[Len(sibs)])>>

\* The lines after the yield (139-142), for the element just handled: a tag child is
\* the last of pending, an entity the last of siblings, the root holds them all.
PostClear(tag, sibs, pend) ==
    IF ~ShouldClear(tag) THEN [s |-> sibs, p |-> pend]
    ELSE IF tag = "tag" THEN [s |-> sibs, p |-> ClearAndPrune(pend)]
    ELSE IF tag = "osm" THEN [s |-> <<>>, p |-> <<>>]
    ELSE [s |-> ClearAndPrune(sibs), p |-> pend]

\* Bounds of the element streams
MaxChildren == 2

MaxTopLimb == 3

SampleLow == {0, 5, TopLimb}

\* ids around both offsets: k * 10^15 + low, for the smallest and largest low parts
PackedIds ==
    {<<hi, m, m, lo>> : hi \in 0..MaxTopLimb, m \in {0, TopLimb}, lo \in SampleLow}

\* A converted dump tags every entity as node and packs the kind into the id; a dump
\* that was not converted carries way and relation elements with their own small ids.
EntityHeads ==
    {<<"node", id>> : id \in PackedIds}
        \cup {<<t, <<0, 0, 0, 5>>>> : t \in {"way", "relation"}}

\* <tag k=".." v=".."/>
TagElement(k, v) ==
    [tag |-> "tag", attrib |-> <<<<KeyK, k>>, <<KeyV, v>>>>, children |-> <<>>, cleared |-> FALSE]

TagKeys == {KeyName}

TagValues == Texts

AllowedChoices == {ALL_OSM_TAGS, WAYS_RELATIONS}

\* The events of seen belong to one entity: a new event after an entity's end event
\* starts the next window.
Window(s) == IF s # <<>> /\ s[Len(s)].tag # "tag" THEN <<>> ELSE s

\* One pass of the loop body (lines 123-142) for elem, whose end event the parser
\* delivers after attaching it: sibs and pend are the tree with elem in it.
HandleEnd(elem, kv, sibs, pend) ==
    LET id == PopId(elem.attrib)
        dec == Decode(elem.tag, id)
        fresh == Window(seen) = <<>> /\ seen # <<>>
        log == Append(Window(seen),
                      [tag |-> elem.tag, id |-> id, item_type |-> dec.item_type,
                       elem_id |-> dec.elem_id, kv |-> kv])
        before == IF fresh THEN <<>> ELSE yielded
    IN  /\ seen' = log
        /\ IF IsAllowed(dec.item_type, allowed_types)
           THEN IF ChildrenReadable(elem.children)
                THEN /\ yielded' = Append(before,
                             [key |-> Key(dec.item_type, dec.elem_id, allowed_types),
                              attrs |-> Attrs(WithoutId(elem.attrib), elem.children),
                              idx |-> Len(log)])
                     /\ pc' = "suspended"
                     /\ siblings' = sibs
                     /\ pending' = pend
                ELSE /\ yielded' = before
                     /\ pc' = "raised"
                     /\ siblings' = sibs
                     /\ pending' = pend
           ELSE LET post == PostClear(elem.tag, sibs, pend)
                IN  /\ yielded' = before
                    /\ pc' = IF elem.tag = "osm" THEN "done" ELSE "running"
                    /\ siblings' = post.s
                    /\ pending' = post.p
        /\ UNCHANGED allowed_types
        /\ UNCHANGED <<coordVars, builderVars>>

\* The end event of a <tag k=.. v=..> child of the element being parsed
EndTag ==
    /\ pc = "running"
    /\ Len(pending) < MaxChildren
    /\ \E k \in TagKeys, v \in TagValues :
          LET elem == TagElement(k, v)
          IN  HandleEnd(elem, <<k, v>>, siblings, Append(pending, elem))

\* The end event of an entity element: its tag children are those parsed before it
EndEntity ==
    /\ pc = "running"
    /\ \E h \in EntityHeads :
          LET elem == [tag |-> h[1], attrib |-> <<<<KeyId, h[2]>>, <<KeyLat, <<"4", "8", ".", "1">>>>>>,
                       children |-> pending, cleared |-> FALSE]
          IN  HandleEnd(elem, <<>>, Append(siblings, elem), <<>>)

\* The end event of the root element, which has no id
EndRoot ==
    /\ pc = "running"
    /\ pending = <<>>
    /\ LET elem == [tag |-> "osm", attrib |-> <<>>, children |-> siblings, cleared |-> FALSE]
       IN  HandleEnd(elem, <<>>, siblings, pending)

\* The consumer asks for the next item: the generator resumes after the yield
Resume ==
    /\ pc = "suspended"
    /\ LET tag == seen[Len(seen)].tag
           post == PostClear(tag, siblings, pending)
       IN  /\ siblings' = post.s
           /\ pending' = post.p
           /\ pc' = IF tag = "osm" THEN "done" ELSE "running"
    /\ UNCHANGED <<allowed_types, seen, yielded>>
    /\ UNCHANGED <<coordVars, builderVars>>

ParseInit ==
    /\ allowed_types \in AllowedChoices
    /\ siblings = <<>>
    /\ pending = <<>>
    /\ pc = "running"
    /\ seen = <<>>
    /\ yielded = <<>>
    /\ CoordIdle
    /\ BuilderIdle

ParseNext == EndTag \/ EndEntity \/ EndRoot \/ Resume

SpecParse == ParseInit /\ [][ParseNext]_vars

----------------------------------------------------------------------------
(* Text: a unicode string is a sequence of characters, each a one-character *)
(* TLA+ string; characters outside ASCII are written by their code point.   *)

DEGREE == "U+00B0"
ORDINAL == "U+00BA"
PRIME == "U+2032"
DOUBLE_PRIME == "U+2033"

Digit == {"0", "1", "2", "3", "4", "5", "6", "7", "8", "9"}

DigitValue(c) == CHOOSE n \in 0..9 : <<"0", "1", "2", "3", "4", "5", "6", "7", "8", "9">>[n + 1] = c

\* s[a..b-1]
Slice(s, a, b) == [i \in 1..(b - a) |-> s[a + i - 1]]

\* s.startswith(p)
StartsWith(s, p) == Len(s) >= Len(p) /\ Slice(s, 1, Len(p) + 1) = p

\* s.strip(chars)
RECURSIVE LStrip(_, _)
LStrip(s, chars) ==
    IF s # <<>> /\ Head(s) \in chars THEN LStrip(Tail(s), chars) ELSE s

RECURSIVE RStrip(_, _)
RStrip(s, chars) ==
    IF s # <<>> /\ s[Len(s)] \in chars THEN RStrip(Slice(s, 1, Len(s)), chars) ELSE s

Strip(s, chars) == RStrip(LStrip(s, chars), chars)

\* s.replace(a, b) for single characters
Replace(s, a, b) == [i \in 1..Len(s) |-> IF s[i] = a THEN b ELSE s[i]]

----------------------------------------------------------------------------
(* Regular expressions, matched the way the re module does it: a pattern is *)
(* a tree, and matching a pattern at a position gives every way it can      *)
(* match, in the order backtracking tries them; the first way that reaches  *)
(* the end of the whole pattern is the match.                               *)

Chars(S) == [op |-> "set", chars |-> S]
Ch(c) == Chars({c})
Cat(items) == [op |-> "seq", items |-> items]
Opt(r) == [op |-> "opt", r |-> r]
Star(r) == [op |-> "star", r |-> r]
Plus(r) == Cat(<<r, Star(r)>>)
Group(n, r) == [op |-> "grp", n |-> n, r |-> r]
Alt(items) == [op |-> "alt", items |-> items]
EndOfString == [op |-> "end"]

NoGroups == [n \in 1..4 |-> <<>>]

RECURSIVE Match(_, _, _, _)
RECURSIVE MatchEach(_, _, _)
RECURSIVE MatchItems(_, _, _)
RECURSIVE MatchAny(_, _, _, _)

\* every way r matches s from position i on, best first: [pos, caps]
Match(r, s, i, caps) ==
    CASE r.op = "set" ->
            IF i <= Len(s) /\ s[i] \in r.chars
            THEN <<[pos |-> i + 1, caps |-> caps]>> ELSE <<>>
      [] r.op = "seq" -> MatchItems(r.items, s, <<[pos |-> i, caps |-> caps]>>)
      [] r.op = "opt" -> Match(r.r, s, i, caps) \o <<[pos |-> i, caps |-> caps]>>
      [] r.op = "star" ->
            MatchEach(r, s, SelectSeq(Match(r.r, s, i, caps), LAMBDA o : o.pos > i))
                \o <<[pos |-> i, caps |-> caps]>>
      [] r.op = "grp" ->
            LET inner == Match(r.r, s, i, caps)
            IN  [k \in 1..Len(inner) |->
                    [pos |-> inner[k].pos,
                     caps |-> [inner[k].caps EXCEPT ![r.n] = <<Slice(s, i, inner[k].pos)>>]]]
      [] r.op = "alt" -> MatchAny(r.items, s, i, caps)
      [] r.op = "end" ->
            IF i = Len(s) + 1 \/ (i = Len(s) /\ s[i] = "\n")
            THEN <<[pos |-> i, caps |-> caps]>> ELSE <<>>

\* r continued from each of the ways in outs
MatchEach(r, s, outs) ==
    IF outs = <<>> THEN <<>>
    ELSE Match(r, s, outs[1].pos, outs[1].caps) \o MatchEach(r, s, Tail(outs))

MatchItems(items, s, outs) ==
    IF items = <<>> THEN outs
    ELSE MatchItems(Tail(items), s, MatchEach(Head(items), s, outs))

MatchAny(items, s, i, caps) ==
    IF items = <<>> THEN <<>>
    ELSE Match(Head(items), s, i, caps) \o MatchAny(Tail(items), s, i, caps)

\* regex.match(s): <<>> for None, else <<groups>>, a group being <<>> for None
ReMatch(r, s) ==
    LET ways == Match(r, s, 1, NoGroups)
    IN  IF ways = <<>> THEN <<>> ELSE <<ways[1].caps>>

Spaces == Star(Ch(" "))

DegreeMark == Chars({" ", ":", DEGREE, ORDINAL, "d", "D"})

MinuteMark == Chars({":", "'", PRIME, "m", "M"})

SecondMark == Chars({":", "?", "\"", DOUBLE_PRIME, "s", "S"})

ZeroToFive == Chars({"0", "1", "2", "3", "4", "5"})

OneDigit == Chars(Digit)

\* ([0-5]?[0-9])?
MinutesPart == Opt(Group(2, Cat(<<Opt(ZeroToFive), OneDigit>>)))

\* ([0-5]?[0-9](?:\.\d+)?)?
SecondsPart ==
    Opt(Group(3, Cat(<<Opt(ZeroToFive), OneDigit, Opt(Cat(<<Ch("."), Plus(OneDigit)>>))>>)))

\* the tail the two DMS patterns share, from the degree mark to the cardinal letter
DmsTail(cardinals) ==
    <<Spaces, DegreeMark, Spaces, MinutesPart, Spaces, Opt(MinuteMark), Spaces,
      SecondsPart, Spaces, Opt(SecondMark), Spaces, Opt(Group(4, Chars(cardinals))),
      EndOfString>>

LatCardinals == {"N", "n", "S", "s"}

LonCardinals == {"E", "e", "W", "w"}

\* -?1[0-8][0-9]
LonThreeDigits ==
    Cat(<<Opt(Ch("-")), Ch("1"), Chars({"0", "1", "2", "3", "4", "5", "6", "7", "8"}), OneDigit>>)

latitude_dms_regex ==
    Cat(<<Group(1, Cat(<<Opt(Ch("-")), OneDigit, Opt(OneDigit)>>))>> \o DmsTail(LatCardinals))

longitude_dms_regex ==
    Cat(<<Group(1, Alt(<<LonThreeDigits, Cat(<<Opt(Ch("0")), OneDigit, Opt(OneDigit)>>)>>))>>
            \o DmsTail(LonCardinals))

\* (?:\.[0-9]+)
Decimals == Cat(<<Ch("."), Plus(OneDigit)>>)

latitude_decimal_with_direction_regex ==
    Cat(<<Group(1, Cat(<<Opt(Ch("-")), OneDigit, OneDigit, Decimals>>)),
          Spaces, Opt(DegreeMark), Spaces, Group(2, Chars(LatCardinals)), EndOfString>>)

longitude_decimal_with_direction_regex ==
    Cat(<<Group(1, Alt(<<LonThreeDigits, Cat(<<Opt(Ch("0")), OneDigit, OneDigit, Decimals>>)>>)),
          Spaces, Opt(DegreeMark), Spaces, Group(2, Chars(LonCardinals)), EndOfString>>)

\* re.sub(beginning_re, u'', s): beginning_re = '^[^0-9\-]+'
RECURSIVE SubBeginning(_)
SubBeginning(s) ==
    IF s # <<>> /\ Head(s) \notin Digit \cup {"-"} THEN SubBeginning(Tail(s)) ELSE s

\* re.sub(end_re, u'', s): end_re = '[^0-9]+$'
RECURSIVE SubEnd(_)
SubEnd(s) ==
    IF s # <<>> /\ s[Len(s)] \notin Digit THEN SubEnd(Slice(s, 1, Len(s))) ELSE s

----------------------------------------------------------------------------
(* Floats: a float is the integer number of FloatUnit-ths of one (1/360000   *)
(* of a degree), which holds four decimals of a degree and two decimals of a *)
(* second exactly; further decimals are cut.                                 *)

FloatUnit == 360000

FloatDecimals == 4

RECURSIVE DigitsValue(_)
DigitsValue(ds) ==
    IF ds = <<>> THEN 0 ELSE DigitsValue(Slice(ds, 1, Len(ds))) * 10 + DigitValue(ds[Len(ds)])

FractionUnits(ds) ==
    LET kept == [i \in 1..FloatDecimals |-> IF i <= Len(ds) THEN ds[i] ELSE "0"]
    IN  DigitsValue(kept) * (FloatUnit \div 10 ^ FloatDecimals)

\* the decimal texts float() takes: [+-]? ( digits [. digits*] | . digits )
FloatRegex ==
    Cat(<<Opt(Group(1, Chars({"+", "-"}))),
          Alt(<<Cat(<<Group(2, Plus(OneDigit)), Opt(Cat(<<Ch("."), Opt(Group(3, Plus(OneDigit)))>>))>>),
                Cat(<<Ch("."), Group(3, Plus(OneDigit))>>)>>),
          EndOfString>>)

\* float(s) of a text: [ok, v], ok false for ValueError
Float(s) ==
    LET m == ReMatch(FloatRegex, s)
    IN  IF m = <<>> THEN [ok |-> FALSE, v |-> 0]
        ELSE LET g == m[1]
                 whole == IF g[2] = <<>> THEN 0 ELSE DigitsValue(g[2][1]) * FloatUnit
                 part == IF g[3] = <<>> THEN 0 ELSE FractionUnits(g[3][1])
                 neg == g[1] # <<>> /\ g[1][1] = <<"-">>
             IN  [ok |-> TRUE, v |-> IF neg THEN 0 - (whole + part) ELSE whole + part]

\* float(x or 0) of a regex group
GroupFloat(g) == IF g = <<>> THEN 0 ELSE Float(g[1]).v

\* degrees_to_decimal(d, m, s): d + m / 60 + s / 3600
DegreesToDecimal(d, m, s) ==
    GroupFloat(d) + GroupFloat(m) \div 60 + GroupFloat(s) \div 3600

\* direction_sign(c): -1 for south and west, 1 otherwise
DirectionSign(c) ==
    IF c # <<>> /\ c[1] \in {<<"S">>, <<"s">>, <<"W">>, <<"w">>} THEN 0 - 1 ELSE 1

----------------------------------------------------------------------------
(* latlon_to_floats *)

\* .strip(u' ,;|') and .replace(u',', u'.')
CleanCoordinate(text) == Replace(Strip(text, {" ", ",", ";", "|"}), ",", ".")

\* One coordinate of latlon_to_floats (lines 187-202 and 221 for the latitude, 204-219
\* and 221 for the longitude): the degrees-minutes-seconds pattern, then decimal
\* degrees with a cardinal letter, then what is left between the first digit or
\* minus sign and the last digit.  sign is computed in the first branch and not used.
CoordinateToFloat(text, dms_regex, dir_regex) ==
    LET clean == CleanCoordinate(text)
        dms == ReMatch(dms_regex, clean)
        dir == ReMatch(dir_regex, clean)
    IN  IF dms # <<>>
        THEN LET sign == DirectionSign(dms[1][4])
             IN  [ok |-> TRUE, v |-> DegreesToDecimal(dms[1][1], dms[1][2], dms[1][3])]
        ELSE IF dir # <<>>
        THEN LET sign == DirectionSign(dir[1][2])
             IN  [ok |-> TRUE, v |-> Float(dir[1][1][1]).v * sign]
        ELSE Float(SubEnd(SubBeginning(clean)))

\* latlon_to_floats(latitude, longitude): [ok, lat, lon], ok false when float() raises
LatLonToFloats(latitude, longitude) ==
    LET lat == CoordinateToFloat(latitude, latitude_dms_regex,
                                 latitude_decimal_with_direction_regex)
        lon == CoordinateToFloat(longitude, longitude_dms_regex,
                                 longitude_decimal_with_direction_regex)
    IN  IF lat.ok /\ lon.ok
        THEN [ok |-> TRUE, lat |-> lat.v, lon |-> lon.v]
        ELSE [ok |-> FALSE, lat |-> 0, lon |-> 0]

LatitudeTexts ==
    {
     <<"4", "0", ".", "7", "1", "2", "8">>,
     <<"-", "4", "0", ".", "7", "1", "2", "8">>,
     <<"4", "0", " ", "4", "2", " ", "4", "6", " ", "N">>,
     <<"4", "0", " ", "4", "2", " ", "4", "6", " ", "S">>,
     <<"4", "0", DEGREE, "4", "2", "'", "4", "6", ".", "5", "\"", "S">>,
     <<"4", "0", ".", "5", " ", "S">>,
     <<"4", "0", ",", "5">>,
     <<" ", "4", "0", ".", "7", "1", "2", "8", ";">>,
     <<"a", "b", "c">>,
     <<"4", "0", " ", "N">>,
     <<"N", " ", "4", "0", ".", "5">>,
     <<"4", "-", "0">>}

LongitudeTexts ==
    {
     <<"-", "7", "4", ".", "0", "0", "6", "0">>,
     <<"7", "4", " ", "0", " ", "2", "1", " ", "W">>,
     <<"7", "4", " ", "0", " ", "2", "1", " ", "E">>,
     <<"1", "7", "4", DEGREE, "0", "'", "2", "1", "\"", "W">>,
     <<"7", "4", ".", "2", "5", "W">>,
     <<"1", "2", "0", "W">>,
     <<"x">>,
     <<"7", "4", " ", "W">>,
     <<"-", "7", "4", " ", "0", " ", "2", "1">>,
     <<"W", " ", "7", "4">>}

CoordInit ==
    /\ lat_text \in LatitudeTexts
    /\ lon_text \in LongitudeTexts
    /\ coords = NotParsed
    /\ ParserIdle
    /\ BuilderIdle

\* latlon_to_floats(lat_text, lon_text)
ParseCoordinates ==
    /\ ~coords.called
    /\ LET r == LatLonToFloats(lat_text, lon_text)
       IN  coords' = [ok |-> r.ok, lat |-> r.lat, lon |-> r.lon, called |-> TRUE]
    /\ UNCHANGED <<lat_text, lon_text>>
    /\ UNCHANGED <<parserVars, builderVars>>

CoordNext == ParseCoordinates

SpecCoord == CoordInit /\ [][CoordNext]_vars

----------------------------------------------------------------------------
(* Language tables and collaborators                                        *)

En == <<"e", "n">>
Fr == <<"f", "r">>
Ja == <<"j", "a">>

\* geodata.i18n.languages: the known language codes
languages == {En, Fr, Ja}

WELL_REPRESENTED_LANGUAGES == {En, Fr}

AMBIGUOUS_LANGUAGE == <<"x", "x", "x">>

UNKNOWN_LANGUAGE == <<"u", "n", "k">>

\* disambiguate_language(text, languages): one of the languages it is given,
\* AMBIGUOUS_LANGUAGE or UNKNOWN_LANGUAGE.  oracle holds what the text decides.
DisambiguateLanguage(oracle, text, langs) ==
    LET o == oracle[text]
    IN  IF o \in {AMBIGUOUS_LANGUAGE, UNKNOWN_LANGUAGE} THEN o
        ELSE IF \E i \in 1..Len(langs) : langs[i][1] = o THEN o
        ELSE UNKNOWN_LANGUAGE

\* tsv_string(s): tabs and newlines escaped; the texts here hold neither
TsvString(s) == s

----------------------------------------------------------------------------
(* normalize_osm_name_tag *)

\* s.rsplit(c, 1)[-1]
RECURSIVE RSplitLast(_, _)
RSplitLast(s, c) ==
    IF s = <<>> THEN <<>>
    ELSE IF s[Len(s)] = c THEN <<>>
    ELSE Append(RSplitLast(Slice(s, 1, Len(s)), c), s[Len(s)])

\* s.split(c, 1)[0] and s.split(c)[0]
RECURSIVE SplitFirst(_, _)
SplitFirst(s, c) ==
    IF s = <<>> THEN <<>>
    ELSE IF Head(s) = c THEN <<>>
    ELSE <<Head(s)>> \o SplitFirst(Tail(s), c)

NormalizeOsmNameTag(tag, script) ==
    LET norm == RSplitLast(tag, ":")
    IN  IF ~script THEN norm ELSE SplitFirst(norm, "_")

----------------------------------------------------------------------------
(* get_language_names *)

\* name_language[lang].append(v), the keys in the order they were first used
AppendName(names, lang, v) ==
    IF HasKey(names, lang) THEN Put(names, lang, Append(Get(names, lang), v))
    ELSE Append(names, <<lang, <<v>>>>)

\* k.startswith(tag_prefix + ':')
HasPrefix(k, tag_prefix) == StartsWith(k, tag_prefix \o <<":">>)

\* line 250: k.startswith(tag_prefix + ':') and
\*           normalize_osm_name_tag(k, script=True) in languages
IsAlternate(k, tag_prefix) ==
    HasPrefix(k, tag_prefix) /\ NormalizeOsmNameTag(k, TRUE) \in languages

\* alternate_langs: (lang, v) of the alternates, lang = k.rsplit(':', 1)[-1]
AlternateLangs(value, tag_prefix) ==
    LET alts == SelectSeq(value, LAMBDA p : IsAlternate(p[1], tag_prefix))
    IN  [i \in 1..Len(alts) |-> <<RSplitLast(alts[i][1], ":"), alts[i][2]>>]

\* equivalent_alternatives[v]
EquivalentAlternatives(value, tag_prefix, v) ==
    LET same == SelectSeq(AlternateLangs(value, tag_prefix), LAMBDA a : a[2] = v)
    IN  [i \in 1..Len(same) |-> same[i][1]]

\* Every text taken as said by its own tag, none for disambiguation
NoAmbiguousAlternatives(value, tag_prefix) == {}

\* ambiguous_alternatives = set([k for k, v in equivalent_alternatives.iteritems() if len(v) > 1])
AmbiguousAlternatives(value, tag_prefix) ==
    {a[2] : a \in {x \in Range(AlternateLangs(value, tag_prefix)) :
                       Len(EquivalentAlternatives(value, tag_prefix, x[2])) > 1}}

\* default_langs = set([l['lang'] for l in candidate_languages if l.get('default')])
DefaultLangs(candidate_languages) ==
    {l.lang : l \in {c \in Range(candidate_languages) : c.default}}

DefaultCount(props) ==
    Sum([i \in 1..Len(props) |->
            Len(SelectSeq(props[i].languages, LAMBDA l : l.default))])

\* lines 260-270
RegionalDefaults(language_props) ==
    DefaultCount(SelectSeq(language_props, LAMBDA p : p.admin_level > 0))

CountryDefaults(language_props) ==
    DefaultCount(SelectSeq(language_props, LAMBDA p : ~(p.admin_level > 0)))

CountryLangs(language_props) ==
    UNION {{l.lang : l \in Range(p.languages)} :
              p \in {q \in Range(language_props) : ~(q.admin_level > 0)}}

\* [(l['lang'], l['default']) for l in candidate_languages]
LangPairs(candidate_languages) ==
    [i \in 1..Len(candidate_languages) |->
        <<candidate_languages[i].lang, candidate_languages[i].default>>]

\* A call of disambiguate_language, as the scan records it
Call(kind, v, langs, lang) == [kind |-> kind, text |-> v, langs |-> langs, result |-> lang]

\* lines 276-288: one tag with the prefix and a colon
AlternateStep(acc, k, v, ctx) ==
    IF v \notin ctx.ambiguous_alternatives
    THEN LET norm == NormalizeOsmNameTag(k, FALSE)
             norm_sans_script == NormalizeOsmNameTag(k, TRUE)
         IN  IF norm \in languages \/ norm_sans_script \in languages
             THEN [acc EXCEPT !.names = AppendName(@, norm, v)]
             ELSE acc
    ELSE IF v \notin acc.ambiguous_already_seen
    THEN LET eq == EquivalentAlternatives(ctx.value, ctx.tag_prefix, v)
             langs == [i \in 1..Len(eq) |-> <<eq[i], eq[i] \in ctx.default_langs>>]
             lang == DisambiguateLanguage(ctx.oracle, v, langs)
             called == [acc EXCEPT !.calls = Append(@, Call("alternate", v, langs, lang)),
                                   !.ambiguous_already_seen = @ \cup {v}]
         IN  IF lang # AMBIGUOUS_LANGUAGE /\ lang # UNKNOWN_LANGUAGE
             THEN [called EXCEPT !.names = AppendName(@, lang, v)]
             ELSE called
    ELSE acc

\* The shortcut never taken: every bare value goes to disambiguation
NeverSingleLanguage(candidate_languages) == FALSE

\* line 290: if num_langs == 1
SingleLanguage(candidate_languages) == Len(candidate_languages) = 1

\* The resolved language set aside whether or not a region declares a default
SetAsideWithoutRegion(lang, default_lang, ctx) ==
    /\ lang # default_lang
    /\ lang \in CountryLangs(ctx.language_props)
    /\ CountryDefaults(ctx.language_props) > 1
    /\ lang \in WELL_REPRESENTED_LANGUAGES

\* line 301: the resolved language is set aside for the local default
SetAside(lang, default_lang, ctx) ==
    /\ lang # default_lang
    /\ lang \in CountryLangs(ctx.language_props)
    /\ CountryDefaults(ctx.language_props) > 1
    /\ RegionalDefaults(ctx.language_props) > 0
    /\ lang \in WELL_REPRESENTED_LANGUAGES

\* An ambiguous bare value passed over, the scan going on with what it has
BareStepKeepGoing(acc, v, ctx) ==
    IF SingleLanguage(ctx.candidate_languages)
    THEN [acc EXCEPT !.names = AppendName(@, ctx.candidate_languages[1].lang, v)]
    ELSE LET langs == LangPairs(ctx.candidate_languages)
             lang == DisambiguateLanguage(ctx.oracle, v, langs)
             default_lang == ctx.candidate_languages[1].lang
             called == [acc EXCEPT !.calls = Append(@, Call("bare", v, langs, lang))]
             none == [called EXCEPT !.returned = TRUE]
         IN  IF lang = AMBIGUOUS_LANGUAGE THEN called
             ELSE IF lang = UNKNOWN_LANGUAGE /\ Cardinality(ctx.default_langs) = 1
             THEN [called EXCEPT !.names = AppendName(@, default_lang, v)]
             ELSE IF lang # UNKNOWN_LANGUAGE
             THEN IF SetAside(lang, default_lang, ctx) THEN none
                  ELSE [called EXCEPT !.names = AppendName(@, lang, v)]
             ELSE none

\* lines 290-305: one bare tag of an entity without alternates
BareStep(acc, v, ctx) ==
    IF SingleLanguage(ctx.candidate_languages)
    THEN [acc EXCEPT !.names = AppendName(@, ctx.candidate_languages[1].lang, v)]
    ELSE LET langs == LangPairs(ctx.candidate_languages)
             lang == DisambiguateLanguage(ctx.oracle, v, langs)
             default_lang == ctx.candidate_languages[1].lang
             called == [acc EXCEPT !.calls = Append(@, Call("bare", v, langs, lang))]
             none == [called EXCEPT !.returned = TRUE]
         IN  IF lang = AMBIGUOUS_LANGUAGE THEN none
             ELSE IF lang = UNKNOWN_LANGUAGE /\ Cardinality(ctx.default_langs) = 1
             THEN [called EXCEPT !.names = AppendName(@, default_lang, v)]
             ELSE IF lang # UNKNOWN_LANGUAGE
             THEN IF SetAside(lang, default_lang, ctx) THEN none
                  ELSE [called EXCEPT !.names = AppendName(@, lang, v)]
             ELSE none

\* line 289: the tag is the bare tag of the prefix
IsBare(k, tag_prefix) ==
    LET has_colon == ":" \in Range(tag_prefix)
        tag_first_component == SplitFirst(tag_prefix, ":")
        tag_last_component == RSplitLast(tag_prefix, ":")
    IN  /\ StartsWith(k, tag_first_component)
        /\ has_colon \/ ":" \notin Range(k)
        /\ NormalizeOsmNameTag(k, TRUE) = tag_last_component

\* lines 274-305: the second pass over value.iteritems(), from item i on
RECURSIVE ScanTags(_, _, _)
ScanTags(acc, i, ctx) ==
    IF acc.returned \/ i > Len(ctx.value) THEN acc
    ELSE LET k == ctx.value[i][1]
             v == ctx.value[i][2]
             next == IF HasPrefix(k, ctx.tag_prefix) THEN AlternateStep(acc, k, v, ctx)
                     ELSE IF ~ctx.has_alternate_names /\ IsBare(k, ctx.tag_prefix)
                     THEN BareStep(acc, v, ctx)
                     ELSE acc
         IN  ScanTags(next, i + 1, ctx)

\* not (country and candidate_languages)
GeoMiss(geo) == geo.country = "" \/ geo.candidate_languages = <<>>

\* lines 225-235: the entity has coordinates and they parse
HasCoordinates(value) ==
    /\ HasKey(value, KeyLat) /\ HasKey(value, KeyLon)
    /\ LatLonToFloats(Get(value, KeyLat), Get(value, KeyLon)).ok

\* lines 241-272: what the scan of the tags works with
ScanContext(value, tag_prefix, geo, oracle) ==
    [value |-> value, tag_prefix |-> tag_prefix, oracle |-> oracle,
     candidate_languages |-> geo.candidate_languages,
     language_props |-> geo.language_props,
     default_langs |-> DefaultLangs(geo.candidate_languages),
     has_alternate_names |-> Len(AlternateLangs(value, tag_prefix)) > 0,
     ambiguous_alternatives |-> AmbiguousAlternatives(value, tag_prefix)]

ScanStart ==
    [names |-> <<>>, ambiguous_already_seen |-> {}, calls |-> <<>>, returned |-> FALSE]

\* return None, None inside the scan, or line 307: return country, name_language
ScanResult(geo, end) ==
    IF end.returned
    THEN [NoNames EXCEPT !.calls = end.calls, !.located = TRUE, !.partial = end.names]
    ELSE [ok |-> TRUE, country |-> geo.country, names |-> end.names,
          calls |-> end.calls, located |-> TRUE, partial |-> end.names]

\* lines 237-307: the rest of get_language_names, for an entity with coordinates
AttributeNames(value, tag_prefix, geo, oracle) ==
    IF GeoMiss(geo) THEN NoNames
    ELSE ScanResult(geo, ScanTags(ScanStart, 1, ScanContext(value, tag_prefix, geo, oracle)))

\* get_language_names(language_rtree, key, value, tag_prefix): (None, None) is ok
\* false; geo is what country_and_languages returns for the point, oracle what
\* disambiguate_language answers.  calls and located record what the call did.
GetLanguageNames(value, tag_prefix, geo, oracle) ==
    IF ~HasCoordinates(value) THEN NoNames
    ELSE AttributeNames(value, tag_prefix, geo, oracle)

----------------------------------------------------------------------------
(* The builders *)

\* One pass of parse_osm for an entity element, as a builder receives it
ParseOsmItem(elem, allowed) ==
    LET dec == Decode(elem.tag, PopId(elem.attrib))
    IN  [yields |-> IsAllowed(dec.item_type, allowed),
         item_type |-> dec.item_type,
         key |-> Key(dec.item_type, dec.elem_id, allowed),
         value |-> Attrs(WithoutId(elem.attrib), elem.children)]

\* build_ways_training_data, lines 330-333: the rows of one entity
RECURSIVE WaysRows(_, _)
WaysRows(country, names) ==
    IF names = <<>> THEN <<>>
    ELSE LET k == names[1][1]
             v == names[1][2]
         IN  (IF k \in languages
              THEN [i \in 1..Len(v) |-> <<k, country, TsvString(v[i])>>]
              ELSE <<>>) \o WaysRows(country, Tail(names))

\* lines 387-390 with the handler left out: a missing or unparseable coordinate
\* leaves the builder as an exception
LatLonUncaught(value) ==
    IF ~(HasKey(value, KeyLat) /\ HasKey(value, KeyLon)) THEN [ok |-> FALSE, raised |-> TRUE]
    ELSE LET r == LatLonToFloats(Get(value, KeyLat), Get(value, KeyLon))
         IN  [ok |-> r.ok, raised |-> ~r.ok]

\* lines 387-390: try: latlon_to_floats(value['lat'], value['lon'])
\*                except Exception: continue
TryLatLon(value) ==
    IF ~(HasKey(value, KeyLat) /\ HasKey(value, KeyLon)) THEN [ok |-> FALSE, raised |-> FALSE]
    ELSE [ok |-> LatLonToFloats(Get(value, KeyLat), Get(value, KeyLon)).ok, raised |-> FALSE]

OSM_IGNORE_KEYS == {KeyHouse}

\* strip_keys(value, ignore_keys) and the loop of lines 396-397
StripKeys(value, ignore_keys) == SelectSeq(value, LAMBDA p : p[1] \notin ignore_keys)

----------------------------------------------------------------------------
(* The inputs of a builder run *)

MaxTags == 2

MaxStream == 2

RECURSIVE TagMapsOfLen(_, _)
TagMapsOfLen(keys, n) ==
    IF n = 0 THEN {<<>>}
    ELSE {Append(m, <<k, v>>) : m \in TagMapsOfLen(keys, n - 1), k \in keys, v \in Texts}

\* the tag children of one element: distinct keys, the texts named in order of use
TagMaps(keys, n) ==
    UNION {{m \in TagMapsOfLen(keys, len) :
               /\ \A i, j \in 1..len : i # j => m[i][1] # m[j][1]
               /\ len > 0 => m[1][2] = TextA} : len \in 0..n}

GoodCoordinates == <<<<KeyLat, <<"4", "8", ".", "1">>>>, <<KeyLon, <<"2", ".", "3">>>>>>

CoordinateChoices ==
    {GoodCoordinates,
     <<<<KeyLon, <<"2", ".", "3">>>>>>,
     <<<<KeyLat, <<"a", "b", "c">>>>, <<KeyLon, <<"2", ".", "3">>>>>>}

\* a node element of a converted dump: the packed id, the coordinates, the tags
Element(id, coordinates, tags) ==
    [tag |-> "node", attrib |-> <<<<KeyId, id>>>> \o coordinates,
     children |-> [i \in 1..Len(tags) |-> TagElement(tags[i][1], tags[i][2])],
     cleared |-> FALSE]

NameKeys == {KeyName, KeyName1, KeyNameEn, KeyNameFr, KeyNameJaRm, KeyNameZz}

BuilderIds == {<<0, 0, 0, 5>>, <<1, 0, 0, 5>>}

QualifiedKeys == {KeyNameEn, KeyNameFr, KeyNameJaRm}

\* the full range of tags for a way with good coordinates, and the ways that carry
\* every language-qualified key; fewer tags for the elements that are skipped
\* before their tags are looked at
WayElements ==
    {Element(<<1, 0, 0, 5>>, GoodCoordinates, m) :
        m \in TagMaps(NameKeys, MaxTags) \cup TagMaps(QualifiedKeys, Cardinality(QualifiedKeys))}
        \cup {Element(id, c, m) : id \in BuilderIds, c \in CoordinateChoices,
                                  m \in TagMaps({KeyName}, 1)}

FormatKeys == {KeyAddrStreet, KeyHouse, KeyName}

FormatElements ==
    {Element(id, c, m) : id \in BuilderIds, c \in CoordinateChoices,
                         m \in TagMaps(FormatKeys, MaxTags)}

LimitedKeys == {KeyAddrStreet, KeyAddrStreetEn, KeyAddrStreetFr, KeyHousenumber}

\* addresses with every street key and a house number; fewer tags, some of them keys
\* the limited builder removes, for the elements with other coordinates
LimitedElements ==
    {Element(<<0, 0, 0, 5>>, GoodCoordinates, m) :
        m \in TagMaps(LimitedKeys, Cardinality(LimitedKeys))}
        \cup {Element(<<0, 0, 0, 5>>, c, m) :
                  c \in CoordinateChoices, m \in TagMaps({KeyAddrStreet, KeyName, KeyHouse}, MaxTags)}

Lang(l, d) == [lang |-> l, default |-> d]

CandidateChoices ==
    {<<Lang(En, TRUE)>>, <<Lang(Fr, TRUE)>>}
        \cup {<<Lang(a, da), Lang(b, db)>> :
                 a \in {En, Fr}, b \in {En, Fr}, da \in BOOLEAN, db \in BOOLEAN}

\* country_and_languages(language_rtree, latitude, longitude): the country polygon
\* declares the candidates; a region, when the point is in one, declares its first
Region(c, in_region) ==
    IF in_region THEN <<[admin_level |-> 4, languages |-> <<Lang(c[1].lang, TRUE)>>]>> ELSE <<>>

\* a point in a region that declares a language the country does not
RegionalLanguageResult ==
    [country |-> "xx",
     candidate_languages |-> <<Lang(En, TRUE), Lang(Ja, TRUE), Lang(Fr, TRUE)>>,
     language_props |-> <<[admin_level |-> 0, languages |-> <<Lang(En, TRUE), Lang(Ja, TRUE)>>],
                          [admin_level |-> 4, languages |-> <<Lang(Fr, TRUE)>>]>>]

GeoResults ==
    {NoGeo, [NoGeo EXCEPT !.country = "xx"], RegionalLanguageResult}
        \cup {[country |-> "xx", candidate_languages |-> c,
               language_props |-> <<[admin_level |-> 0, languages |-> c]>> \o Region(c, r)] :
                 c \in {x \in CandidateChoices :
                           /\ Len(x) = 2 => x[1].lang # x[2].lang
                           /\ \E i \in 1..Len(x) : x[i].default},
                 r \in BOOLEAN}

\* official_languages[country], in the table's order, and the well-represented
\* languages that count the country among their origin countries
CountryDataChoices ==
    {[official |-> o, origin |-> w] :
        o \in {<<>>, <<Lang(En, TRUE)>>, <<Lang(En, FALSE), Lang(Fr, TRUE)>>,
                <<Lang(Ja, TRUE), Lang(En, TRUE)>>},
        w \in {{}, {En}, {En, Fr}}}

\* places with up to MaxTags name tags; fewer tags, some without a name, for the
\* elements with other coordinates
ToponymElements ==
    {Element(<<0, 0, 0, 5>>, GoodCoordinates, m) : m \in TagMaps(NameKeys, MaxTags)}
        \cup {Element(<<0, 0, 0, 5>>, c, m) :
                  c \in CoordinateChoices, m \in TagMaps({KeyName, KeyAddrStreet}, 1)}

JaRm == <<"j", "a", "_", "r", "m">>

Outcomes == {AMBIGUOUS_LANGUAGE, UNKNOWN_LANGUAGE, En, Fr, Ja, JaRm}

\* the texts get_language_names hands to disambiguate_language
ConsultedTexts(value, tag_prefix, geo) ==
    AmbiguousAlternatives(value, tag_prefix)
        \cup {p[2] : p \in {q \in Range(value) :
                               /\ Len(AlternateLangs(value, tag_prefix)) = 0
                               /\ IsBare(q[1], tag_prefix)
                               /\ Len(geo.candidate_languages) > 1}}

\* what disambiguate_language decides for the texts it is asked about
Oracles(consulted) ==
    {[t \in Texts |-> IF t \in consulted THEN o[t] ELSE UNKNOWN_LANGUAGE] :
        o \in [consulted -> Outcomes]}

----------------------------------------------------------------------------
(* The builders over a stream of entities *)

Builders == {"ways", "format_tagged", "format_untagged"}

\* address_formatter.format_address(country, value, tag_components): None, or a text
\* that may be empty or blank; <<>> is None, <<text>> the text
FormatResults == {<<>>, <<<<>>>>, <<<<" ">>>>, <<<<"F">>>>}

\* one record is over: the next one is read from the stream
RecordOver(it, g, n, r, h, failed) ==
    /\ item' = it
    /\ lookup' = g
    /\ name_language' = n
    /\ written' = r
    /\ handed' = h
    /\ todo' = todo - 1
    /\ skipped' = IF failed THEN skipped + 1 ELSE skipped
    /\ UNCHANGED <<builder, status, country_data>>

\* the same for a builder whose tag bags are not followed
NextRecord(it, g, n, r, failed) == RecordOver(it, g, n, r, <<>>, failed)

\* build_ways_training_data, lines 327-336: the turn of the loop for name_language n
WaysTurn(it, g, n) ==
    IF n.names = <<>> THEN NextRecord(it, g, n, <<>>, ~n.ok)
    ELSE NextRecord(it, g, n, WaysRows(n.country, n.names), FALSE)

\* lines 325-326: an entity with coordinates is looked up and its names attributed
WaysLocated(it) ==
    \E g \in GeoResults :
       \E oracle \in Oracles(ConsultedTexts(it.value, KeyName, g)) :
          WaysTurn(it, g, AttributeNames(it.value, KeyName, g, oracle))

WaysItem(it) ==
    IF ~it.yields THEN NextRecord(it, NoGeo, NoNames, <<>>, FALSE)
    ELSE IF ~HasCoordinates(it.value) THEN NextRecord(it, NoGeo, NoNames, <<>>, TRUE)
    ELSE WaysLocated(it)

\* build_ways_training_data, lines 325-336: one turn of the loop, with the turn of
\* parse_osm's loop that feeds it
WaysRecord ==
    /\ builder = "ways"
    /\ status = "open"
    /\ item = NoItem
    /\ todo > 0
    /\ \E elem \in WayElements : WaysItem(ParseOsmItem(elem, WAYS_RELATIONS))
    /\ UNCHANGED <<parserVars, coordVars>>

\* lines 399-407: the language of a tagged row; <<>> when the turn ends at line 406
FormatLanguage(value, candidate_languages, oracle) ==
    IF Len(candidate_languages) = 1 THEN <<candidate_languages[1].lang>>
    ELSE IF ~HasKey(value, KeyAddrStreet) THEN <<>>
    ELSE <<DisambiguateLanguage(oracle, Get(value, KeyAddrStreet),
                                LangPairs(candidate_languages))>>

\* lines 410-419: the row of an address, if one is written
FormatRows(tag_components, language, country, formatted) ==
    IF formatted = <<>> THEN <<>>
    ELSE IF TsvString(formatted[1]) = <<>> \/ Strip(TsvString(formatted[1]), {" "}) = <<>>
    THEN <<>>
    ELSE IF tag_components THEN <<<<language, country, TsvString(formatted[1])>>>>
    ELSE <<<<TsvString(formatted[1])>>>>

\* lines 409-419, tag_components false
FormatUntagged(it, g) ==
    \E f \in FormatResults :
       NextRecord(it, g, NoNames, FormatRows(FALSE, <<>>, g.country, f), FALSE)

\* lines 405-419, tag_components true
FormatTagged(it, g, language) ==
    IF language = <<>> THEN NextRecord(it, g, NoNames, <<>>, TRUE)
    ELSE \E f \in FormatResults :
            NextRecord(it, g, NoNames, FormatRows(TRUE, language[1], g.country, f), FALSE)

\* lines 392-419: the entity has coordinates; it is it with the ignored keys removed
FormatLocated(it, tag_components) ==
    \E g \in GeoResults :
       IF GeoMiss(g) THEN NextRecord(it, g, NoNames, <<>>, TRUE)
       ELSE IF ~tag_components THEN FormatUntagged(it, g)
       ELSE \E oracle \in Oracles(IF HasKey(it.value, KeyAddrStreet)
                                  THEN {Get(it.value, KeyAddrStreet)} ELSE {}) :
               FormatTagged(it, g, FormatLanguage(it.value, g.candidate_languages, oracle))

\* lines 386-397: c is how the coordinates fared
FormatItem(it, c, tag_components) ==
    IF c.raised
    THEN /\ status' = "raised"
         /\ item' = it
         /\ UNCHANGED <<builder, todo, skipped, lookup, name_language, written, handed,
                        country_data>>
    ELSE IF ~c.ok THEN NextRecord(it, NoGeo, NoNames, <<>>, TRUE)
    ELSE FormatLocated([it EXCEPT !.value = StripKeys(@, OSM_IGNORE_KEYS)], tag_components)

\* build_address_format_training_data, lines 386-424: one turn of the loop, with the
\* turn of parse_osm's loop that feeds it
FormatRecord ==
    /\ builder \in {"format_tagged", "format_untagged"}
    /\ status = "open"
    /\ item = NoItem
    /\ todo > 0
    /\ \E elem \in FormatElements :
          FormatItem(ParseOsmItem(elem, ALL_OSM_TAGS),
                     TryLatLon(ParseOsmItem(elem, ALL_OSM_TAGS).value),
                     builder = "format_tagged")
    /\ UNCHANGED <<parserVars, coordVars>>

\* line 464: remove_keys = NAME_KEYS + COUNTRY_KEYS + POSTAL_KEYS + OSM_IGNORE_KEYS
remove_keys ==
    {KeyName,
     <<"a", "d", "d", "r", ":", "h", "o", "u", "s", "e", "n", "a", "m", "e">>,
     <<"c", "o", "u", "n", "t", "r", "y">>,
     <<"c", "o", "u", "n", "t", "r", "y", "_", "n", "a", "m", "e">>,
     <<"a", "d", "d", "r", ":", "c", "o", "u", "n", "t", "r", "y">>,
     <<"p", "o", "s", "t", "c", "o", "d", "e">>,
     <<"p", "o", "s", "t", "a", "l", "_", "c", "o", "d", "e">>,
     <<"a", "d", "d", "r", ":", "p", "o", "s", "t", "c", "o", "d", "e">>,
     <<"a", "d", "d", "r", ":", "p", "o", "s", "t", "a", "l", "_", "c", "o", "d", "e">>} \cup OSM_IGNORE_KEYS

\* lines 487-493: for k in address_dict.keys(), keys being the list taken before the
\* loop and address_dict the bag as the loop has left it so far
RECURSIVE LocalizeFields(_, _, _, _)
LocalizeFields(address_dict, keys, lang, single_language) ==
    IF keys = <<>> THEN address_dict
    ELSE LocalizeFields(
            IF HasKey(address_dict, keys[1] \o <<":">> \o lang)
            THEN Put(address_dict, keys[1], Get(address_dict, keys[1] \o <<":">> \o lang))
            ELSE IF ~single_language THEN StripKeys(address_dict, {keys[1]})
            ELSE address_dict,
            Tail(keys), lang, single_language)

\* lines 480-496: the languages that reach the formatter, each with its tag bag
LimitedHanded(value, names) ==
    SelectSeq([i \in 1..Len(names) |->
                  <<names[i][1],
                    LocalizeFields(value, [j \in 1..Len(value) |-> value[j][1]],
                                   names[i][1], Len(names) = 1)>>],
              LAMBDA p : p[1] \in languages /\ p[2] # <<>>)

\* lines 498-502: a row for every language the formatter has a text for, f being
\* what format_address returns for each language's bag
LimitedRows(country, h, f) ==
    [i \in 1..Len(SelectSeq(h, LAMBDA p : f[p[1]] # <<>>)) |->
        <<SelectSeq(h, LAMBDA p : f[p[1]] # <<>>)[i][1], country,
          TsvString(f[SelectSeq(h, LAMBDA p : f[p[1]] # <<>>)[i][1]][1])>>]

LimitedWrite(it, g, n, h) ==
    \E f \in [{h[i][1] : i \in 1..Len(h)} -> FormatResults] :
       RecordOver(it, g, n, LimitedRows(g.country, h, f), h, FALSE)

\* lines 477-479: if not name_language: continue
LimitedTurn(it, g, n) ==
    IF n.names = <<>> THEN NextRecord(it, g, n, <<>>, TRUE)
    ELSE LimitedWrite(it, g, n, LimitedHanded(it.value, n.names))

\* lines 472-475: it is the entity with remove_keys popped
LimitedLocated(it) ==
    IF it.value = <<>> THEN NextRecord(it, NoGeo, NoNames, <<>>, TRUE)
    ELSE \E g \in GeoResults :
            \E oracle \in Oracles(ConsultedTexts(it.value, KeyAddrStreet, g)) :
               LimitedTurn(it, g, AttributeNames(it.value, KeyAddrStreet, g, oracle))

\* lines 467-470: c is how the coordinates fared
LimitedItem(it, c) ==
    IF ~c.ok THEN NextRecord(it, NoGeo, NoNames, <<>>, TRUE)
    ELSE LimitedLocated([it EXCEPT !.value = StripKeys(@, remove_keys)])

\* build_address_format_training_data_limited, lines 466-506: one turn of the loop,
\* with the turn of parse_osm's loop that feeds it
LimitedRecord ==
    /\ builder = "limited"
    /\ status = "open"
    /\ item = NoItem
    /\ todo > 0
    /\ \E elem \in LimitedElements :
          LimitedItem(ParseOsmItem(elem, ALL_OSM_TAGS),
                      TryLatLon(ParseOsmItem(elem, ALL_OSM_TAGS).value))
    /\ UNCHANGED <<parserVars, coordVars>>

\* the language of an entry that was stored under None (csv writes None as '')
None == <<>>

\* line 560: default_langs = set([l for l, default in official.iteritems() if default])
OfficialDefaults(official) == {l.lang : l \in {o \in Range(official) : o.default}}

\* line 562: regional_langs, the languages of the regions chained
RECURSIVE RegionalLangs(_)
RegionalLangs(language_props) ==
    IF language_props = <<>> THEN <<>>
    ELSE (IF language_props[1].admin_level > 0 THEN language_props[1].languages ELSE <<>>)
            \o RegionalLangs(Tail(language_props))

\* lines 564-566: top_lang
TopLang(official) == IF Len(official) > 0 THEN official[1].lang ELSE None

\* lines 569-570: default_langs -= WELL_REPRESENTED_LANGUAGES
NarrowedDefaults(official) ==
    IF /\ TopLang(official) # None
       /\ TopLang(official) \notin WELL_REPRESENTED_LANGUAGES
       /\ Cardinality(OfficialDefaults(official)) > 1
    THEN OfficialDefaults(official) \ WELL_REPRESENTED_LANGUAGES
    ELSE OfficialDefaults(official)

\* lines 572-583: valid_languages
ValidLanguages(candidate_languages, data) ==
    ({l.lang : l \in Range(candidate_languages)}
        \ {lang \in WELL_REPRESENTED_LANGUAGES : lang \notin data.origin})
        \cup NarrowedDefaults(data.official)

\* lines 590-600: the language a name: tag is taken to be in, None when the loop
\* moves on to the next tag
QualifiedLang(k) ==
    IF ~StartsWith(k, KeyName \o <<":">>) THEN None
    ELSE IF NormalizeOsmNameTag(k, FALSE) \in languages THEN NormalizeOsmNameTag(k, FALSE)
    ELSE IF NormalizeOsmNameTag(k, TRUE) \in languages THEN NormalizeOsmNameTag(k, TRUE)
    ELSE None

\* lines 589-603: for k, v in value.iteritems()
RECURSIVE QualifiedNames(_, _, _)
QualifiedNames(names, value, valid_languages) ==
    IF value = <<>> THEN names
    ELSE QualifiedNames(IF QualifiedLang(value[1][1]) \in valid_languages
                        THEN AppendName(names, QualifiedLang(value[1][1]), value[1][2])
                        ELSE names,
                        Tail(value), valid_languages)

\* lines 605-606: names is what the qualified tags gave, have_qualified_names that it
\* is not empty
LastResort(names, value, geo, data, valid_languages) ==
    IF /\ names = <<>>
       /\ Len(RegionalLangs(geo.language_props)) <= 1
       /\ HasKey(value, KeyName)
       /\ Cardinality(valid_languages) = 1
    THEN AppendName(names, TopLang(data.official), Get(value, KeyName))
    ELSE names

\* lines 608-613: the rows of one place
RECURSIVE ToponymRows(_, _)
ToponymRows(country, names) ==
    IF names = <<>> THEN <<>>
    ELSE [i \in 1..Len(SelectSeq(names[1][2], LAMBDA t : Strip(t, {" "}) # <<>>)) |->
             <<names[1][1], country,
               TsvString(Strip(SelectSeq(names[1][2],
                                         LAMBDA t : Strip(t, {" "}) # <<>>)[i],
                               {" "}))>>]
            \o ToponymRows(country, Tail(names))

ToponymWrite(it, g, names) ==
    RecordOver(it, g,
               [NoNames EXCEPT !.ok = TRUE, !.country = g.country, !.names = names,
                               !.located = TRUE],
               ToponymRows(g.country, names), <<>>, FALSE)

\* lines 585-606
ToponymNamed(it, g, valid_languages) ==
    IF valid_languages = {} THEN NextRecord(it, g, NoNames, <<>>, TRUE)
    ELSE ToponymWrite(it, g, LastResort(QualifiedNames(<<>>, it.value, valid_languages),
                                        it.value, g, country_data, valid_languages))

\* lines 552-583
ToponymLocated(it) ==
    \E g \in GeoResults :
       IF GeoMiss(g) THEN NextRecord(it, g, NoNames, <<>>, TRUE)
       ELSE ToponymNamed(it, g, ValidLanguages(g.candidate_languages, country_data))

\* lines 544-550: c is how the coordinates fared
ToponymItem(it, c) ==
    IF ~\E k \in Keys(it.value) : StartsWith(k, KeyName)
    THEN NextRecord(it, NoGeo, NoNames, <<>>, TRUE)
    ELSE IF ~c.ok THEN NextRecord(it, NoGeo, NoNames, <<>>, TRUE)
    ELSE ToponymLocated(it)

\* build_toponym_training_data, lines 543-616: one turn of the loop, with the turn of
\* parse_osm's loop that feeds it
ToponymRecord ==
    /\ builder = "toponym"
    /\ status = "open"
    /\ item = NoItem
    /\ todo > 0
    /\ \E elem \in ToponymElements :
          ToponymItem(ParseOsmItem(elem, ALL_OSM_TAGS),
                      TryLatLon(ParseOsmItem(elem, ALL_OSM_TAGS).value))
    /\ UNCHANGED <<parserVars, coordVars>>

\* the turn of the loop is over and the builder asks the generator for the next
\* entity: what was bound to the last one is dropped
TurnOver ==
    /\ status = "open"
    /\ item # NoItem
    /\ item' = NoItem
    /\ lookup' = NoGeo
    /\ name_language' = NoNames
    /\ written' = <<>>
    /\ handed' = <<>>
    /\ UNCHANGED <<builder, todo, status, skipped, country_data>>
    /\ UNCHANGED <<parserVars, coordVars>>

\* the stream is exhausted: the loop ends and the builder returns
EndOfStream ==
    /\ status = "open"
    /\ item = NoItem
    /\ todo = 0
    /\ status' = "done"
    /\ UNCHANGED <<builder, todo, skipped, item, lookup, name_language, written, handed,
                   country_data>>
    /\ UNCHANGED <<parserVars, coordVars>>

Init ==
    /\ builder \in Builders
    /\ todo \in 1..MaxStream
    /\ status = "open"
    /\ skipped = 0
    /\ item = NoItem
    /\ lookup = NoGeo
    /\ name_language = NoNames
    /\ written = <<>>
    /\ handed = <<>>
    /\ country_data = NoCountryData
    /\ ParserIdle
    /\ CoordIdle

Next == WaysRecord \/ FormatRecord \/ TurnOver \/ EndOfStream

Spec == Init /\ [][Next]_vars

\* a run of build_address_format_training_data_limited over a stream
LimitedInit ==
    /\ builder = "limited"
    /\ todo \in 1..MaxStream
    /\ status = "open"
    /\ skipped = 0
    /\ item = NoItem
    /\ lookup = NoGeo
    /\ name_language = NoNames
    /\ written = <<>>
    /\ handed = <<>>
    /\ country_data = NoCountryData
    /\ ParserIdle
    /\ CoordIdle

LimitedNext == LimitedRecord \/ TurnOver \/ EndOfStream

SpecLimited == LimitedInit /\ [][LimitedNext]_vars

\* a run of build_toponym_training_data over a stream, in a country whose entries in
\* the language tables are country_data
ToponymInit ==
    /\ builder = "toponym"
    /\ todo \in 1..MaxStream
    /\ status = "open"
    /\ skipped = 0
    /\ item = NoItem
    /\ lookup = NoGeo
    /\ name_language = NoNames
    /\ written = <<>>
    /\ handed = <<>>
    /\ country_data \in CountryDataChoices
    /\ ParserIdle
    /\ CoordIdle

ToponymNext == ToponymRecord \/ TurnOver \/ EndOfStream

SpecToponym == ToponymInit /\ [][ToponymNext]_vars

----------------------------------------------------------------------------
(* Properties of parse_osm, under SpecParse *)

\* The kind of an element as the id ranges give it, the markup tag below 10^15
KindOf(e) ==
    IF LongGE(e.id, RELATION_OFFSET) THEN "relation"
    ELSE IF LongGE(e.id, WAY_OFFSET) THEN "way"
    ELSE e.tag

\* C1 as stated: for every element handled, the decoded (kind, local id) is (node, n)
\* if n < 10^15, (way, n - 10^15) if 10^15 <= n < 2*10^15 and (relation, n - 2*10^15)
\* if n >= 2*10^15, whatever the element's markup tag.
C1_AsStated ==
    \A i \in 1..Len(seen) :
        LET e == seen[i]
        IN  /\ LongLT(e.id, WAY_OFFSET) =>
                 e.item_type = "node" /\ e.elem_id = e.id
            /\ LongGE(e.id, WAY_OFFSET) /\ LongLT(e.id, RELATION_OFFSET) =>
                 e.item_type = "way" /\ LongAdd(e.elem_id, WAY_OFFSET) = e.id
            /\ LongGE(e.id, RELATION_OFFSET) =>
                 e.item_type = "relation" /\ LongAdd(e.elem_id, RELATION_OFFSET) = e.id

\* C1 amended: ids from 10^15 up decode to (way, n - 10^15) or (relation, n - 2*10^15)
\* whatever the markup tag; an id below 10^15 (0 for an element without id) is kept
\* with the element's own markup tag as its kind, which is node for a node element.
C1_IdOffsetDecoding ==
    \A i \in 1..Len(seen) :
        LET e == seen[i]
        IN  /\ IsLong(e.elem_id)
            /\ LongLT(e.id, WAY_OFFSET) =>
                 e.item_type = e.tag /\ e.elem_id = e.id
            /\ LongGE(e.id, WAY_OFFSET) /\ LongLT(e.id, RELATION_OFFSET) =>
                 e.item_type = "way" /\ LongAdd(e.elem_id, WAY_OFFSET) = e.id
            /\ LongGE(e.id, RELATION_OFFSET) =>
                 e.item_type = "relation" /\ LongAdd(e.elem_id, RELATION_OFFSET) = e.id

\* A tag child decoded as (tag, 0), then its node-tagged parent with id 10^15 + 5
\* decoded as (way, 5)
C1_Witness ==
    /\ Len(seen) = 2
    /\ seen[1].tag = "tag" /\ seen[1].item_type = "tag" /\ seen[1].elem_id = LongZero
    /\ seen[2].tag = "node" /\ seen[2].id = <<1, 0, 0, 5>>
    /\ seen[2].item_type = "way" /\ seen[2].elem_id = <<0, 0, 0, 5>>

YieldedAt(i) == {j \in 1..Len(yielded) : yielded[j].idx = i}

\* C8: an element is yielded, once, if and only if its decoded kind is in
\* allowed_types; tag children and the root are never yielded.
C8_KindFilter ==
    /\ \A i \in 1..Len(seen) :
          /\ Cardinality(YieldedAt(i)) = (IF KindOf(seen[i]) \in allowed_types THEN 1 ELSE 0)
          /\ seen[i].tag \in {"tag", "osm"} => YieldedAt(i) = {}
    /\ \A j \in 1..Len(yielded) :
          /\ yielded[j].idx \in 1..Len(seen)
          /\ KindOf(seen[yielded[j].idx]) \in allowed_types

\* With only ways and relations allowed: a tag child is passed over, its parent way is
\* yielded
C8_Witness ==
    /\ allowed_types = WAYS_RELATIONS
    /\ Len(seen) = 2 /\ seen[1].tag = "tag" /\ KindOf(seen[2]) = "way"
    /\ Len(yielded) = 1 /\ yielded[1].idx = 2

Uncleared == Cardinality({i \in 1..Len(siblings) : ~siblings[i].cleared})

\* the tag children handled before seen[i], the end event of their parent
ChildEvents(i) == {c \in 1..(i - 1) : seen[c].tag = "tag"}

\* C9: an entity left behind, yielded or skipped, is cleared and its earlier siblings
\* are gone, so at most one un-cleared entity subtree is retained at any point and
\* the tree never holds more than the entity at hand and its emptied predecessor;
\* the tag children are still readable when their parent is yielded.
C9_MemoryDiscipline ==
    /\ pc # "raised"
    /\ Uncleared + (IF pending # <<>> THEN 1 ELSE 0) <= 1
    /\ Len(siblings) <= 2
    /\ pc \in {"running", "done"} =>
          /\ Len(siblings) <= 1
          /\ \A i \in 1..Len(siblings) :
                siblings[i].cleared /\ siblings[i].children = <<>>
    /\ \A i \in 1..Len(pending) : ~pending[i].cleared
    /\ \A j \in 1..Len(yielded) :
          \A c \in ChildEvents(yielded[j].idx) :
              /\ HasKey(yielded[j].attrs, seen[c].kv[1])
              /\ (\A d \in ChildEvents(yielded[j].idx) : d > c => seen[d].kv[1] # seen[c].kv[1])
                     => Get(yielded[j].attrs, seen[c].kv[1]) = seen[c].kv[2]

\* A node with a tag child was skipped (only ways and relations allowed), and a tag of
\* the next element is already parsed: the skipped node is all that is left, emptied
C9_Witness ==
    /\ allowed_types = WAYS_RELATIONS
    /\ pc = "running"
    /\ Len(seen) = 2 /\ seen[1].tag = "tag" /\ seen[2].tag = "node"
    /\ KindOf(seen[2]) = "node" /\ yielded = <<>>
    /\ Len(siblings) = 1 /\ siblings[1].cleared /\ siblings[1].children = <<>>

----------------------------------------------------------------------------
(* Properties of get_language_names and the builders, under Spec *)

\* the tags of value with the prefix and a known language after the last colon
QualifiedTags(value, tag_prefix) == SelectSeq(value, LAMBDA p : IsAlternate(p[1], tag_prefix))

\* the texts that two or more language-qualified tags of the entity carry
SharedTexts(value, tag_prefix) ==
    {p[2] : p \in {q \in Range(QualifiedTags(value, tag_prefix)) :
                      \E r \in Range(QualifiedTags(value, tag_prefix)) :
                         r[1] # q[1] /\ r[2] = q[2]}}

\* the languages, as the tags name them, of the tags that carry text
SharingLangs(value, tag_prefix, text) ==
    {RSplitLast(p[1], ":") : p \in {q \in Range(QualifiedTags(value, tag_prefix)) : q[2] = text}}

CallsAbout(calls, kind, text) == SelectSeq(calls, LAMBDA c : c.kind = kind /\ c.text = text)

\* the languages of the result that text is listed under
ListedUnder(names, text) == {p[1] : p \in {q \in Range(names) : text \in Range(q[2])}}

RowsWith(text) == {r \in Range(written) : r[Len(r)] = text}

WaysLocatedItem == builder = "ways" /\ item # NoItem /\ name_language.located

GuardedAs(call, value, text) ==
    /\ {l[1] : l \in Range(call.langs)} = SharingLangs(value, KeyName, text)
    /\ ListedUnder(name_language.names, text) \subseteq {call.result}
    /\ call.result \in {AMBIGUOUS_LANGUAGE, UNKNOWN_LANGUAGE} =>
          /\ ListedUnder(name_language.names, text) = {}
          /\ RowsWith(text) = {}

\* C2: a text that two or more language-qualified name tags of a located way share
\* goes to the disambiguation collaborator once, with the languages of the tags
\* that share it; it is listed under no language but the one the collaborator
\* returns, and under none, with no row written for it, when the collaborator
\* returns ambiguous or unknown.
C2_AmbiguityGuard ==
    WaysLocatedItem =>
        \A text \in SharedTexts(item.value, KeyName) :
            /\ Len(CallsAbout(name_language.calls, "alternate", text)) = 1
            /\ GuardedAs(CallsAbout(name_language.calls, "alternate", text)[1], item.value, text)

\* a shared text the collaborator found ambiguous, beside a tag attributed directly
C2_Witness ==
    /\ WaysLocatedItem
    /\ \E text \in SharedTexts(item.value, KeyName) :
          /\ Len(CallsAbout(name_language.calls, "alternate", text)) = 1
          /\ CallsAbout(name_language.calls, "alternate", text)[1].result = AMBIGUOUS_LANGUAGE
          /\ RowsWith(text) = {}
    /\ name_language.names # <<>>
    /\ written # <<>>

AmbiguousBareCall ==
    \E i \in 1..Len(name_language.calls) :
       /\ name_language.calls[i].kind = "bare"
       /\ name_language.calls[i].result = AMBIGUOUS_LANGUAGE

\* C3: when the collaborator finds the value of a bare tag ambiguous,
\* get_language_names returns no result for the entity and the ways builder writes
\* no row for it, whatever the scan had attributed before.
C3_FallbackGuard ==
    (WaysLocatedItem /\ AmbiguousBareCall) =>
        /\ ~name_language.ok
        /\ name_language.names = <<>>
        /\ written = <<>>

\* the second bare tag is ambiguous after the first was attributed
C3_Witness ==
    /\ WaysLocatedItem
    /\ AmbiguousBareCall
    /\ name_language.partial # <<>>
    /\ written = <<>>

BareTags(value, tag_prefix) ==
    SelectSeq(value, LAMBDA p : ~HasPrefix(p[1], tag_prefix) /\ IsBare(p[1], tag_prefix))

SingleCandidateItem ==
    /\ WaysLocatedItem
    /\ QualifiedTags(item.value, KeyName) = <<>>
    /\ Len(lookup.candidate_languages) = 1

\* C4: for a located entity without language-qualified alternates and with exactly
\* one candidate language, every bare tag's value is listed under that language
\* and the collaborator is not called.
C4_SingleCandidateShortcut ==
    SingleCandidateItem =>
        /\ name_language.calls = <<>>
        /\ \A p \in Range(BareTags(item.value, KeyName)) :
              ListedUnder(name_language.names, p[2]) = {lookup.candidate_languages[1].lang}

\* two bare tags of one entity, both attributed to the only candidate
C4_Witness ==
    /\ SingleCandidateItem
    /\ Len(BareTags(item.value, KeyName)) > 1
    /\ Len(written) = Len(BareTags(item.value, KeyName))

PrefixedTags(value, tag_prefix) == SelectSeq(value, LAMBDA p : HasPrefix(p[1], tag_prefix))

\* the language-qualified tags of the way are all of a known language, after the
\* script qualifier is taken off, and no two carry the same text
DirectlyAttributable(value, tag_prefix) ==
    /\ QualifiedTags(value, tag_prefix) # <<>>
    /\ PrefixedTags(value, tag_prefix) = QualifiedTags(value, tag_prefix)
    /\ SharedTexts(value, tag_prefix) = {}

\* C5: for a located way whose language-qualified name tags have distinct texts and
\* known languages, the rows written are one per tag: the tag's language, the
\* country, the tag's text.
C5_DirectAttribution ==
    (WaysLocatedItem /\ DirectlyAttributable(item.value, KeyName)) =>
        /\ Len(written) = Len(QualifiedTags(item.value, KeyName))
        /\ Range(written) =
              {<<NormalizeOsmNameTag(p[1], TRUE), lookup.country, p[2]>> :
                  p \in Range(QualifiedTags(item.value, KeyName))}

\* C6: every key of the map get_language_names returns is a known language code.
C6_KnownLanguageKeys ==
    \A p \in Range(name_language.names) : p[1] \in languages

GivenUp ==
    /\ item # NoItem
    /\ item.yields
    /\ GeoMiss(lookup) \/ (builder = "ways" /\ ~name_language.ok)

BareCalls(result) ==
    SelectSeq(name_language.calls, LAMBDA c : c.kind = "bare" /\ c.result = result)

\* the candidate languages of the point that are flagged default
FlaggedDefault(candidate_languages) ==
    {candidate_languages[i].lang : i \in {j \in 1..Len(candidate_languages) :
                                            candidate_languages[j].default}}

\* C11: when the collaborator answers unknown for a bare tag and exactly one
\* candidate language of the point is flagged default, the value is listed under
\* that language, wherever it stands in the candidate list.
C11_UnknownToSingleDefault ==
    (WaysLocatedItem /\ name_language.ok
        /\ Cardinality(FlaggedDefault(lookup.candidate_languages)) = 1) =>
        \A c \in Range(BareCalls(UNKNOWN_LANGUAGE)) :
            ListedUnder(name_language.names, c.text) \subseteq
                FlaggedDefault(lookup.candidate_languages)

Concrete(lang) == lang \notin {AMBIGUOUS_LANGUAGE, UNKNOWN_LANGUAGE}

\* the four conditions on a resolved language: other than the top-ranked candidate,
\* well represented, several country-level defaults, a regional default
FourConditions(lang) ==
    /\ lang # lookup.candidate_languages[1].lang
    /\ lang \in WELL_REPRESENTED_LANGUAGES
    /\ CountryDefaults(lookup.language_props) > 1
    /\ RegionalDefaults(lookup.language_props) > 0

DeclaredByCountry(lang) ==
    \E i \in 1..Len(lookup.language_props) :
       /\ lookup.language_props[i].admin_level = 0
       /\ \E j \in 1..Len(lookup.language_props[i].languages) :
             lookup.language_props[i].languages[j].lang = lang

\* the i-th call ended the scan without a result
AbortedAt(i) == ~name_language.ok /\ i = Len(name_language.calls)

\* the i-th call's text was listed under the language the call resolved
AttributedAt(i) ==
    name_language.calls[i].result \in
        ListedUnder(name_language.partial, name_language.calls[i].text)

ConcreteBareCalls ==
    {i \in 1..Len(name_language.calls) :
        name_language.calls[i].kind = "bare" /\ Concrete(name_language.calls[i].result)}

\* C12 as stated: a bare value resolved to a concrete language ends the entity
\* without a result exactly when the four conditions hold, and is attributed to
\* the resolved language otherwise.
C12_AsStated ==
    WaysLocatedItem =>
        \A i \in ConcreteBareCalls :
            IF FourConditions(name_language.calls[i].result)
            THEN AbortedAt(i) ELSE AttributedAt(i) /\ ~AbortedAt(i)

\* C12: a bare value resolved to a concrete language ends the entity without a
\* result exactly when the four conditions hold and the language is one the
\* country-level polygons declare; otherwise it is attributed to that language.
C12_WellRepresentedGuard ==
    WaysLocatedItem =>
        \A i \in ConcreteBareCalls :
            IF FourConditions(name_language.calls[i].result)
               /\ DeclaredByCountry(name_language.calls[i].result)
            THEN AbortedAt(i) ELSE AttributedAt(i) /\ ~AbortedAt(i)

\* a value attributed, then the next one set aside for the local default
C12_Witness ==
    /\ WaysLocatedItem
    /\ \E i \in ConcreteBareCalls :
          /\ FourConditions(name_language.calls[i].result)
          /\ DeclaredByCountry(name_language.calls[i].result)
          /\ AbortedAt(i)
    /\ name_language.partial # <<>>
    /\ written = <<>>

\* every text the scan listed or asked the collaborator about
ScannedTexts ==
    UNION {Range(p[2]) : p \in Range(name_language.partial)}
        \cup {c.text : c \in Range(name_language.calls)}

ValuesOf(tags) == {p[2] : p \in Range(tags)}

\* with an alternate, the bare tag is left alone: no call is made for a bare
\* value and what the scan lists comes from the tags with the prefix and a colon
BareLeftAlone ==
    QualifiedTags(item.value, KeyName) # <<>> =>
        /\ \A c \in Range(name_language.calls) : c.kind # "bare"
        /\ ScannedTexts \subseteq ValuesOf(PrefixedTags(item.value, KeyName))

\* without an alternate, only the tag that is the prefix itself is the bare tag
OnlyThePrefixIsBare ==
    QualifiedTags(item.value, KeyName) = <<>> =>
        ScannedTexts \subseteq
            ValuesOf(SelectSeq(item.value, LAMBDA p : p[1] = KeyName))

\* C15: the bare tag's value is attributed, or ends the entity, only when the
\* entity has no language-qualified alternate of the prefix; with an alternate it
\* is not listed and not sent to the collaborator; and only the tag equal to the
\* prefix counts as the bare tag.
C15_BareGatedOnAlternates ==
    WaysLocatedItem => BareLeftAlone /\ OnlyThePrefixIsBare

CandidateLangs == {lookup.candidate_languages[i].lang : i \in 1..Len(lookup.candidate_languages)}

\* C16: every row the tagged address builder writes is (language, country, text)
\* with a concrete language that is a candidate language of the point; an entity
\* whose street the collaborator finds ambiguous or unknown leaves no row.
C16_TaggedRowsConcrete ==
    (builder = "format_tagged" /\ item # NoItem) =>
        \A r \in Range(written) :
            /\ Len(r) = Len(<<"language", "country", "formatted_address">>)
            /\ Concrete(r[1])
            /\ r[1] \in CandidateLangs

\* the fields of an entity: its keys other than the per-language forms of a key
Fields(value) == {k \in Keys(value) : RSplitLast(k, ":") \notin languages}

\* the value the limited builder is to hand over for field k in language lang
Localized(value, k, lang) ==
    IF HasKey(value, k \o <<":">> \o lang) THEN Get(value, k \o <<":">> \o lang)
    ELSE Get(value, k)

\* C14: in the limited builder, for each attributed language of an entity, the tag
\* bag handed to the formatter holds every field of the entity, with the value of
\* field:<lang> when the entity has that key and with the shared value of the field
\* otherwise, whether one language or several were attributed.
C14_FieldFallback ==
    builder = "limited" /\ item # NoItem =>
        \A i \in 1..Len(handed) :
           \A k \in Fields(item.value) :
              /\ HasKey(handed[i][2], k)
              /\ Get(handed[i][2], k) = Localized(item.value, k, handed[i][1])

\* the valid-language set of the place in hand
ToponymValid == ValidLanguages(lookup.candidate_languages, country_data)

\* a place the toponym builder got names for
ToponymNamedItem == builder = "toponym" /\ item # NoItem /\ name_language.ok

\* no qualified name tag matches the valid-language set, the bare name exists, at
\* most one region overlaps the point and one valid language remains
LastResortCase ==
    /\ ToponymNamedItem
    /\ \A k \in Keys(item.value) : QualifiedLang(k) \notin ToponymValid
    /\ HasKey(item.value, KeyName)
    /\ Cardinality({i \in 1..Len(lookup.language_props) :
                       lookup.language_props[i].admin_level > 0}) <= 1
    /\ Cardinality(ToponymValid) = 1

\* C13: in the toponym builder's last-resort case the bare name is listed under the
\* single valid language and under no other, and every row the builder writes carries
\* a language of the place's valid-language set.
C13_ToponymLastResort ==
    /\ LastResortCase =>
          ListedUnder(name_language.names, Get(item.value, KeyName)) = ToponymValid
    /\ ToponymNamedItem => \A i \in 1..Len(written) : written[i][1] \in ToponymValid

----------------------------------------------------------------------------
(* Properties of latlon_to_floats, under SpecCoord *)

\* the cardinal letter a coordinate text ends with, if any
EndsWithAny(text, letters) ==
    LET clean == CleanCoordinate(text)
    IN  clean # <<>> /\ clean[Len(clean)] \in letters

\* d + m/60 + s/3600 of a text the degrees-minutes-seconds pattern matches
DmsMagnitude(text, dms_regex) ==
    LET g == ReMatch(dms_regex, CleanCoordinate(text))[1]
    IN  DegreesToDecimal(g[1], g[2], g[3])

DmsMatches(text, dms_regex) == ReMatch(dms_regex, CleanCoordinate(text)) # <<>>

\* C7: when a coordinate matches the degrees-minutes-seconds pattern the result is
\* d + m/60 + s/3600 with the sign of its cardinal letter: negative for a latitude
\* ending in S and for a longitude ending in W, positive for N and E.
C7_CardinalSign ==
    coords.called /\ coords.ok =>
        /\ DmsMatches(lat_text, latitude_dms_regex) =>
              coords.lat = IF EndsWithAny(lat_text, {"S", "s"})
                           THEN 0 - DmsMagnitude(lat_text, latitude_dms_regex)
                           ELSE DmsMagnitude(lat_text, latitude_dms_regex)
        /\ DmsMatches(lon_text, longitude_dms_regex) =>
              coords.lon = IF EndsWithAny(lon_text, {"W", "w"})
                           THEN 0 - DmsMagnitude(lon_text, longitude_dms_regex)
                           ELSE DmsMagnitude(lon_text, longitude_dms_regex)

====
